---- MODULE Spec2Model ----
(***************************************************************************)
(* A model of the retrieve package (github.com/ciathefed/retrieve): the    *)
(* Builder, its chainable setters, its accessors, BuildURL and Exec.       *)
(*                                                                         *)
(* Go strings are sequences of one-character strings, so that parsing,     *)
(* escaping and re-serialising a URL are computed and not assumed.  The    *)
(* standard-library routines the package calls (net/url, path/filepath,    *)
(* strings, encoding/json) are modelled at their call sites, restricted    *)
(* to the characters of Alphabet: no '@' (userinfo), no '[' (IPv6          *)
(* literals), no control bytes and no bytes above 0x7f occur.              *)
(***************************************************************************)
EXTENDS Integers, Sequences, FiniteSets, TLC

(***************************************************************************)
(* Characters                                                              *)
(***************************************************************************)
Lower == <<"a","b","c","d","e","f","g","h","i","j","k","l","m",
           "n","o","p","q","r","s","t","u","v","w","x","y","z">>

Upper == <<"A","B","C","D","E","F","G","H","I","J","K","L","M",
           "N","O","P","Q","R","S","T","U","V","W","X","Y","Z">>

Digit == <<"0","1","2","3","4","5","6","7","8","9">>

HexUpper == <<"0","1","2","3","4","5","6","7","8","9","A","B","C","D","E","F">>

Punct == << <<" ", 32>>, <<"\"", 34>>, <<"#", 35>>, <<"%", 37>>, <<"&", 38>>,
            <<"+", 43>>, <<",", 44>>, <<"-", 45>>, <<".", 46>>, <<"/", 47>>, <<":", 58>>,
            <<";", 59>>, <<"=", 61>>, <<"?", 63>>, <<"_", 95>>, <<"{", 123>>,
            <<"}", 125>>, <<"~", 126>> >>

Range(s) == {s[i] : i \in DOMAIN s}

Pos(table, c) == IF c \in Range(table)
                 THEN CHOOSE i \in DOMAIN table : table[i] = c
                 ELSE 0

IsLower(c) == c \in Range(Lower)
IsUpper(c) == c \in Range(Upper)
IsAlpha(c) == IsLower(c) \/ IsUpper(c)
IsDigit(c) == c \in Range(Digit)
IsAlnum(c) == IsAlpha(c) \/ IsDigit(c)

Alphabet == Range(Lower) \cup Range(Upper) \cup Range(Digit)
            \cup {Punct[i][1] : i \in DOMAIN Punct}

\* The byte value of a character (ASCII).
Code(c) == IF IsLower(c) THEN 96 + Pos(Lower, c)
           ELSE IF IsUpper(c) THEN 64 + Pos(Upper, c)
           ELSE IF IsDigit(c) THEN 47 + Pos(Digit, c)
           ELSE Punct[CHOOSE i \in DOMAIN Punct : Punct[i][1] = c][2]

\* The character of a byte value; defined on the bytes of Alphabet only.
Chr(n) == CHOOSE c \in Alphabet : Code(c) = n

ishex(c) == IsDigit(c) \/ c \in {"a","b","c","d","e","f","A","B","C","D","E","F"}

unhex(c) == IF IsDigit(c) THEN Pos(Digit, c) - 1
            ELSE IF IsLower(c) THEN Pos(Lower, c) + 9
            ELSE Pos(Upper, c) + 9

(***************************************************************************)
(* Strings                                                                 *)
(***************************************************************************)
Index(s, c) == IF c \in Range(s)
               THEN CHOOSE i \in DOMAIN s : s[i] = c /\ \A j \in 1..(i-1) : s[j] # c
               ELSE 0

LastIndex(s, c) == IF c \in Range(s)
                   THEN CHOOSE i \in DOMAIN s :
                            s[i] = c /\ \A j \in (i+1)..Len(s) : s[j] # c
                   ELSE 0

Count(s, c) == Cardinality({i \in DOMAIN s : s[i] = c})

From(s, i) == SubSeq(s, i, Len(s))

HasPrefix(s, p) == Len(s) >= Len(p) /\ SubSeq(s, 1, Len(p)) = p

HasSuffix(s, p) == Len(s) >= Len(p) /\ From(s, Len(s) - Len(p) + 1) = p

\* strings.Cut(s, sep) for a one-character separator.
Cut(s, c) == LET i == Index(s, c)
             IN  IF i = 0 THEN [before |-> s, after |-> <<>>, found |-> FALSE]
                 ELSE [before |-> SubSeq(s, 1, i - 1), after |-> From(s, i + 1),
                       found |-> TRUE]

\* strings.Index(s, sub): the first position of sub in s, 0 when absent.
IndexSub(s, sub) ==
    LET hits == {i \in 1..(Len(s) - Len(sub) + 1) : SubSeq(s, i, i + Len(sub) - 1) = sub}
    IN  IF hits = {} THEN 0 ELSE CHOOSE i \in hits : \A j \in hits : i <= j

\* strings.Split(s, sep), for a non-empty sep.
RECURSIVE Split(_, _)
Split(s, sep) == LET i == IndexSub(s, sep)
                 IN  IF i = 0 THEN <<s>>
                     ELSE <<SubSeq(s, 1, i - 1)>> \o Split(From(s, i + Len(sep)), sep)

\* strings.Trim(s, cutset) for a one-character cutset.
RECURSIVE TrimLeft(_, _)
TrimLeft(s, c) == IF s # <<>> /\ s[1] = c THEN TrimLeft(Tail(s), c) ELSE s

RECURSIVE TrimRight(_, _)
TrimRight(s, c) == IF s # <<>> /\ s[Len(s)] = c
                   THEN TrimRight(SubSeq(s, 1, Len(s) - 1), c) ELSE s

Trim(s, c) == TrimRight(TrimLeft(s, c), c)

ToUpperChar(c) == IF IsLower(c) THEN Upper[Pos(Lower, c)] ELSE c
ToLowerChar(c) == IF IsUpper(c) THEN Lower[Pos(Upper, c)] ELSE c

\* strings.ToUpper / strings.ToLower
ToUpper(s) == [i \in DOMAIN s |-> ToUpperChar(s[i])]
ToLower(s) == [i \in DOMAIN s |-> ToLowerChar(s[i])]

\* Byte-wise lexicographic order of Go strings (s < t).
RECURSIVE StrLess(_, _)
StrLess(s, t) == IF t = <<>> THEN FALSE
                 ELSE IF s = <<>> THEN TRUE
                 ELSE IF s[1] = t[1] THEN StrLess(Tail(s), Tail(t))
                 ELSE Code(s[1]) < Code(t[1])

\* A set of strings as the sorted sequence (slices.Sort of the keys).
RECURSIVE SortStrs(_)
SortStrs(S) == IF S = {} THEN <<>>
               ELSE LET m == CHOOSE x \in S : \A y \in S \ {x} : StrLess(x, y)
                    IN  <<m>> \o SortStrs(S \ {m})

RECURSIVE Concat(_)
Concat(ss) == IF ss = <<>> THEN <<>> ELSE Head(ss) \o Concat(Tail(ss))

(***************************************************************************)
(* net/url: escaping                                                       *)
(***************************************************************************)
Reserved == {"&", "+", "/", ":", ";", "=", "?"}

\* url.shouldEscape(c, mode), mode one of "path", "host", "query"
\* (encodeQueryComponent) and "fragment".
shouldEscape(c, mode) ==
    IF IsAlnum(c) THEN FALSE
    ELSE IF mode = "host" /\ c \in {"&", "+", ";", "=", ":", "\""} THEN FALSE
    ELSE IF c \in {"-", "_", ".", "~"} THEN FALSE
    ELSE IF c \in Reserved /\ mode = "path" THEN c = "?"
    ELSE IF c \in Reserved /\ mode = "query" THEN TRUE
    ELSE IF c \in Reserved /\ mode = "fragment" THEN FALSE
    ELSE TRUE

\* "%XX" for the byte n.
EscapeCode(n) == <<"%", HexUpper[(n \div 16) + 1], HexUpper[(n % 16) + 1]>>

\* url.escape(s, mode)
RECURSIVE escape(_, _)
escape(s, mode) ==
    IF s = <<>> THEN <<>>
    ELSE (IF shouldEscape(s[1], mode)
          THEN (IF s[1] = " " /\ mode = "query" THEN <<"+">> ELSE EscapeCode(Code(s[1])))
          ELSE <<s[1]>>) \o escape(Tail(s), mode)

UnescapeOK(s) == [ok |-> TRUE, s |-> s, err |-> ""]
UnescapeErr(e) == [ok |-> FALSE, s |-> <<>>, err |-> e]

\* The byte of the escape "%hl", where h and l are the values of its digits.
\* In a host only "%25" and bytes above 0x7f may be escaped.
EscapedByte(h, l, mode) ==
    IF mode = "host" /\ h < 8 /\ ~(h = 2 /\ l = 5)
    THEN UnescapeErr("invalid URL escape")
    ELSE UnescapeOK(<<Chr(16 * h + l)>>)

\* url.unescape(s, mode): [ok, s, err].  The first offending byte decides
\* the error, as in the validating first pass of the code.
RECURSIVE unescapeFrom(_, _, _, _)
RECURSIVE unescapeByte(_, _, _, _, _)
unescapeFrom(s, i, mode, acc) ==
    IF i > Len(s) THEN UnescapeOK(acc)
    ELSE IF s[i] = "%"
    THEN IF i + 2 > Len(s) \/ ~ishex(s[i+1]) \/ ~ishex(s[i+2])
         THEN UnescapeErr("invalid URL escape")
         ELSE unescapeByte(s, i, mode, acc, EscapedByte(unhex(s[i+1]), unhex(s[i+2]), mode))
    ELSE IF mode = "host" /\ s[i] # "+" /\ shouldEscape(s[i], "host")
    THEN UnescapeErr("invalid character in host name")
    ELSE unescapeFrom(s, i + 1, mode,
                      Append(acc, IF s[i] = "+" /\ mode = "query" THEN " " ELSE s[i]))

unescapeByte(s, i, mode, acc, byte) ==
    IF ~byte.ok THEN byte ELSE unescapeFrom(s, i + 3, mode, acc \o byte.s)

unescape(s, mode) == unescapeFrom(s, 1, mode, <<>>)

\* url.validEncoded(s, mode)
validEncoded(s, mode) ==
    \A i \in DOMAIN s :
        \/ s[i] \in {"&", "+", ";", "=", ":", "%"}
        \/ ~shouldEscape(s[i], mode)

(***************************************************************************)
(* net/url: URL, Parse, ParseRequestURI, String                            *)
(***************************************************************************)
EmptyURL == [Scheme |-> <<>>, Opaque |-> <<>>, Host |-> <<>>, Path |-> <<>>,
             RawPath |-> <<>>, OmitHost |-> FALSE, ForceQuery |-> FALSE,
             RawQuery |-> <<>>, Fragment |-> <<>>, RawFragment |-> <<>>]

ParseOK(u) == [ok |-> TRUE, u |-> u, err |-> ""]
ParseErr(e) == [ok |-> FALSE, u |-> EmptyURL, err |-> e]

SchemeOf(scheme, rest, err) == [scheme |-> scheme, rest |-> rest, err |-> err]

\* url.getScheme(rawURL): [scheme, rest, err]
RECURSIVE getSchemeFrom(_, _)
getSchemeFrom(raw, i) ==
    IF i > Len(raw) THEN SchemeOf(<<>>, raw, "")
    ELSE IF IsAlpha(raw[i]) \/ (i > 1 /\ (IsDigit(raw[i]) \/ raw[i] \in {"+", "-", "."}))
    THEN getSchemeFrom(raw, i + 1)
    ELSE IF raw[i] = ":" /\ i = 1
    THEN SchemeOf(<<>>, <<>>, "missing protocol scheme")
    ELSE IF raw[i] = ":"
    THEN SchemeOf(SubSeq(raw, 1, i - 1), From(raw, i + 1), "")
    ELSE SchemeOf(<<>>, raw, "")

getScheme(raw) == getSchemeFrom(raw, 1)

\* url.validOptionalPort(port)
validOptionalPort(port) ==
    \/ port = <<>>
    \/ port[1] = ":" /\ \A i \in 2..Len(port) : IsDigit(port[i])

\* url.parseHost(host), without the IPv6 bracket form: [ok, s, err]
parseHost(host) ==
    IF ":" \in Range(host) /\ ~validOptionalPort(From(host, LastIndex(host, ":")))
    THEN UnescapeErr("invalid port after host")
    ELSE unescape(host, "host")

\* URL.setPath(p) applied to u, path the unescaped p: [ok, u, err]
setPathTo(u, p, path) ==
    IF ~path.ok THEN ParseErr(path.err)
    ELSE ParseOK([u EXCEPT !.Path = path.s,
                           !.RawPath = IF escape(path.s, "path") = p THEN <<>> ELSE p])

setPath(u, p) == setPathTo(u, p, unescape(p, "path"))

\* URL.setFragment(f) applied to u, frag the unescaped f: [ok, u, err]
setFragmentTo(u, f, frag) ==
    IF ~frag.ok THEN ParseErr(frag.err)
    ELSE ParseOK([u EXCEPT !.Fragment = frag.s,
                           !.RawFragment = IF escape(frag.s, "fragment") = f
                                           THEN <<>> ELSE f])

setFragment(u, f) == setFragmentTo(u, f, unescape(f, "fragment"))

\* url.parse from the authority on: host the parsed authority, rest the path.
parseAuthority(u, host, rest) ==
    IF ~host.ok THEN ParseErr(host.err)
    ELSE setPath([u EXCEPT !.Host = host.s], rest)

\* url.parse after the scheme and the query are cut off: rest is what is
\* left, i the position of the first '/' after a leading "//".
parseRest(u, rest, viaRequest, i) ==
    IF ~HasPrefix(rest, <<"/">>) /\ u.Scheme # <<>>
    THEN ParseOK([u EXCEPT !.Opaque = rest])
    ELSE IF ~HasPrefix(rest, <<"/">>) /\ viaRequest
    THEN ParseErr("invalid URI for request")
    ELSE IF ~HasPrefix(rest, <<"/">>) /\ ":" \in Range(Cut(rest, "/").before)
    THEN ParseErr("first path segment in URL cannot contain colon")
    ELSE IF (u.Scheme # <<>> \/ (~viaRequest /\ ~HasPrefix(rest, <<"/", "/", "/">>)))
            /\ HasPrefix(rest, <<"/", "/">>)
    THEN parseAuthority(u,
                        parseHost(IF i = 0 THEN From(rest, 3) ELSE SubSeq(rest, 3, i + 1)),
                        IF i = 0 THEN <<>> ELSE From(rest, i + 2))
    ELSE setPath([u EXCEPT !.OmitHost = (u.Scheme # <<>> /\ HasPrefix(rest, <<"/">>))],
                 rest)

\* url.parse after the scheme is cut off: the query is cut off at the first
\* '?'; a lone trailing '?' is ForceQuery.
parseQuery(scheme, rest, viaRequest, force, c) ==
    parseRest([EmptyURL EXCEPT !.Scheme = scheme, !.ForceQuery = force,
                               !.RawQuery = IF force THEN <<>> ELSE c.after],
              c.before, viaRequest, Index(From(c.before, 3), "/"))

parseScheme(gs, viaRequest) ==
    IF gs.err # "" THEN ParseErr(gs.err)
    ELSE parseQuery(ToLower(gs.scheme), gs.rest, viaRequest,
                    HasSuffix(gs.rest, <<"?">>) /\ Count(gs.rest, "?") = 1,
                    Cut(gs.rest, "?"))

\* url.parse(rawURL, viaRequest): [ok, u, err]
parse(rawURL, viaRequest) ==
    IF rawURL = <<>> /\ viaRequest THEN ParseErr("empty url")
    ELSE parseScheme(getScheme(rawURL), viaRequest)

\* url.Parse after the fragment is cut off: p the parsed URL without it.
ParseFragment(p, frag) ==
    IF ~p.ok \/ frag = <<>> THEN p ELSE setFragment(p.u, frag)

ParseCut(c) == ParseFragment(parse(c.before, FALSE), c.after)

\* url.Parse(rawURL): the fragment is cut off first.
Parse(rawURL) == ParseCut(Cut(rawURL, "#"))

\* url.ParseRequestURI(rawURL): no fragment is cut off.
ParseRequestURI(rawURL) == parse(rawURL, TRUE)

\* Whether raw is a valid encoding of text (EscapedPath, EscapedFragment).
KeepsRaw(raw, text, mode, un) ==
    raw # <<>> /\ validEncoded(raw, mode) /\ un.ok /\ un.s = text

\* URL.EscapedPath()
EscapedPath(u) ==
    IF KeepsRaw(u.RawPath, u.Path, "path", unescape(u.RawPath, "path"))
    THEN u.RawPath
    ELSE escape(u.Path, "path")

\* URL.EscapedFragment()
EscapedFragment(u) ==
    IF KeepsRaw(u.RawFragment, u.Fragment, "fragment", unescape(u.RawFragment, "fragment"))
    THEN u.RawFragment
    ELSE escape(u.Fragment, "fragment")

\* URL.String() from its parts: head the scheme with its colon, auth the
\* host with its "//", path the escaped path.
StringOf(u, head, auth, path) ==
    head
    \o (IF u.Opaque # <<>> THEN u.Opaque
        ELSE auth
             \o (IF path # <<>> /\ path[1] # "/" /\ u.Host # <<>> THEN <<"/">>
                 ELSE IF head \o auth = <<>> /\ ":" \in Range(Cut(path, "/").before)
                 THEN <<".", "/">>
                 ELSE <<>>)
             \o path)
    \o (IF u.ForceQuery \/ u.RawQuery # <<>> THEN <<"?">> \o u.RawQuery ELSE <<>>)
    \o (IF u.Fragment # <<>> THEN <<"#">> \o EscapedFragment(u) ELSE <<>>)

\* URL.String()
String(u) ==
    StringOf(u,
             IF u.Scheme # <<>> THEN u.Scheme \o <<":">> ELSE <<>>,
             IF (u.Scheme # <<>> \/ u.Host # <<>>) /\ ~(u.OmitHost /\ u.Host = <<>>)
             THEN (IF u.Host # <<>> \/ u.Path # <<>> THEN <<"/", "/">> ELSE <<>>)
                  \o escape(u.Host, "host")
             ELSE <<>>,
             EscapedPath(u))

(***************************************************************************)
(* net/url: Values                                                         *)
(***************************************************************************)
\* url.Values: a function from keys to the sequence of their values.
NoValues == [k \in {} |-> <<>>]

\* Values with value appended to the values of key.
Add(m, key, value) ==
    [x \in DOMAIN m \cup {key} |->
        IF x = key THEN (IF x \in DOMAIN m THEN m[x] ELSE <<>>) \o <<value>>
        ELSE m[x]]

\* One '&'-separated segment added to m by url.parseQuery, k and v its
\* unescaped key and value; a segment that is empty, holds ';' or does not
\* unescape is left out (Query drops the error).
AddPair(m, seg, k, v) ==
    IF seg = <<>> \/ ";" \in Range(seg) \/ ~k.ok \/ ~v.ok THEN m
    ELSE Add(m, k.s, v.s)

AddSegment(m, seg, c) ==
    AddPair(m, seg, unescape(c.before, "query"), unescape(c.after, "query"))

RECURSIVE AddPairs(_, _)
AddPairs(m, segs) == IF segs = <<>> THEN m
                     ELSE AddPairs(AddSegment(m, Head(segs), Cut(Head(segs), "=")),
                                   Tail(segs))

\* URL.Query()
Query(u) == AddPairs(NoValues, Split(u.RawQuery, <<"&">>))

\* Values.Set(key, value)
ValuesSet(m, key, value) ==
    [x \in DOMAIN m \cup {key} |-> IF x = key THEN <<value>> ELSE m[x]]

\* The "k=v" pairs of one key, each preceded by '&'.
RECURSIVE EncodeKey(_, _)
EncodeKey(k, vs) ==
    IF vs = <<>> THEN <<>>
    ELSE <<"&">> \o k \o <<"=">> \o escape(Head(vs), "query") \o EncodeKey(k, Tail(vs))

RECURSIVE EncodeKeys(_, _)
EncodeKeys(m, keys) ==
    IF keys = <<>> THEN <<>>
    ELSE EncodeKey(escape(Head(keys), "query"), m[Head(keys)])
         \o EncodeKeys(m, Tail(keys))

\* Values.Encode(): keys sorted, pairs joined by '&'.
Encode(m) == From(EncodeKeys(m, SortStrs(DOMAIN m)), 2)

(***************************************************************************)
(* path/filepath (Unix)                                                    *)
(***************************************************************************)
\* filepath.Base(path)
Base(path) ==
    IF path = <<>> THEN <<".">>
    ELSE LET p == TrimRight(path, "/")
             i == LastIndex(p, "/")
         IN  IF p = <<>> THEN <<"/">> ELSE From(p, i + 1)

\* The elements of a path that Clean keeps, ".." applied to what precedes it.
RECURSIVE CleanElems(_, _, _)
CleanElems(elems, rooted, acc) ==
    IF elems = <<>> THEN acc
    ELSE LET e == Head(elems) IN
         IF e = <<>> \/ e = <<".">> THEN CleanElems(Tail(elems), rooted, acc)
         ELSE IF e = <<".", ".">>
         THEN IF acc # <<>> /\ acc[Len(acc)] # <<".", ".">>
              THEN CleanElems(Tail(elems), rooted, SubSeq(acc, 1, Len(acc) - 1))
              ELSE IF rooted THEN CleanElems(Tail(elems), rooted, acc)
              ELSE CleanElems(Tail(elems), rooted, Append(acc, e))
         ELSE CleanElems(Tail(elems), rooted, Append(acc, e))

RECURSIVE JoinElems(_)
JoinElems(elems) == IF elems = <<>> THEN <<>>
                    ELSE IF Len(elems) = 1 THEN Head(elems)
                    ELSE Head(elems) \o <<"/">> \o JoinElems(Tail(elems))

\* filepath.Clean(path)
Clean(path) ==
    LET rooted == HasPrefix(path, <<"/">>)
        body   == JoinElems(CleanElems(Split(path, <<"/">>), rooted, <<>>))
    IN  IF rooted THEN <<"/">> \o body
        ELSE IF body = <<>> THEN <<".">> ELSE body

\* filepath.Join(dir, name): empty elements are ignored, the rest is cleaned.
Join(dir, name) ==
    IF dir = <<>> /\ name = <<>> THEN <<>>
    ELSE IF dir = <<>> THEN Clean(name)
    ELSE IF name = <<>> THEN Clean(dir)
    ELSE Clean(dir \o <<"/">> \o name)

\* filepath.Dir of a cleaned path.
Dir(c) == LET i == LastIndex(c, "/")
          IN  IF i = 0 THEN <<".">> ELSE IF i = 1 THEN <<"/">> ELSE SubSeq(c, 1, i - 1)

(***************************************************************************)
(* The file system: cleaned path -> [kind, data]                           *)
(***************************************************************************)
DirEntry == [kind |-> "dir", data |-> <<>>]
FileEntry(data) == [kind |-> "file", data |-> data]

\* os.Stat(path): "dir", "file", "notexist", or "notdir" (a parent is a file).
Stat(f, path) ==
    IF path = <<>> THEN "notexist"
    ELSE LET c == Clean(path) IN
         IF c \in DOMAIN f THEN f[c].kind
         ELSE IF Dir(c) \in DOMAIN f /\ f[Dir(c)].kind = "file" THEN "notdir"
         ELSE "notexist"

\* Whether os.Create(path) succeeds.
CanCreate(f, path) ==
    /\ path # <<>>
    /\ Stat(f, path) \in {"file", "notexist"}
    /\ Stat(f, Dir(Clean(path))) = "dir"

\* The file system after path is created or truncated and data written.
WriteFile(f, path, data) ==
    [x \in DOMAIN f \cup {Clean(path)} |->
        IF x = Clean(path) THEN FileEntry(data) ELSE f[x]]

(***************************************************************************)
(* encoding/json                                                           *)
(***************************************************************************)
Quote(s) == <<"\"">> \o s \o <<"\"">>

RECURSIVE MarshalFields(_, _)
MarshalFields(m, keys) ==
    IF keys = <<>> THEN <<>>
    ELSE <<",">> \o Quote(Head(keys)) \o <<":">> \o Quote(m[Head(keys)])
         \o MarshalFields(m, Tail(keys))

\* json.Marshal(v) for nil, a string of letters, and a map[string]string of
\* such strings (keys sorted).
Marshal(v) ==
    IF v.k = "null" THEN <<"n", "u", "l", "l">>
    ELSE IF v.k = "str" THEN Quote(v.s)
    ELSE LET fields == MarshalFields(v.m, SortStrs(DOMAIN v.m))
         IN  <<"{">> \o (IF fields = <<>> THEN <<>> ELSE Tail(fields)) \o <<"}">>

(***************************************************************************)
(* The Builder                                                             *)
(***************************************************************************)
defaultTimeout == 10

validMethods == << <<"G","E","T">>, <<"P","O","S","T">>, <<"P","U","T">>,
                   <<"P","A","T","C","H">> >>

\* Go error values: a kind, the operation and text the message quotes, the
\* wrapped reason and, for a status error, the status code.
Nil == [kind |-> "nil", op |-> "", text |-> <<>>, reason |-> "", code |-> 0]

\* fmt.Errorf("invalid URL: %v", err), err the *url.Error of url.Parse
ParseError(u, reason) ==
    [kind |-> "invalid URL", op |-> "parse", text |-> u, reason |-> reason, code |-> 0]

\* fmt.Errorf("invalid URL: %s", b.url)
InvalidURL(u) ==
    [kind |-> "invalid URL", op |-> "exec", text |-> u, reason |-> "", code |-> 0]

\* fmt.Errorf("invalid method: %s", b.method)
InvalidMethod(m) ==
    [kind |-> "invalid method", op |-> "exec", text |-> m, reason |-> "", code |-> 0]

\* fmt.Errorf("received status code %d", resp.StatusCode)
StatusError(code) ==
    [kind |-> "status", op |-> "exec", text |-> <<>>, reason |-> "", code |-> code]

\* An error of the standard library returned as it is.
LibError(kind, reason) ==
    [kind |-> kind, op |-> "exec", text |-> <<>>, reason |-> reason, code |-> 0]

\* io.Reader: nil, or a strings.Reader / bytes.Reader with its unread bytes.
NilReader == [nil |-> TRUE, rest |-> <<>>]
NewReader(data) == [nil |-> FALSE, rest |-> data]

NoHeaders == [k \in {} |-> ""]

\* New(url)
New(url) ==
    [url |-> url, method |-> <<"G","E","T">>, headers |-> NoHeaders,
     body |-> NilReader, ctx |-> "Background", timeout |-> defaultTimeout,
     output |-> <<".", "/">>, ignoreStatusCode |-> FALSE, err |-> Nil]

\* Builder.SetMethod
SetMethodB(bb, method) ==
    IF bb.err # Nil THEN bb ELSE [bb EXCEPT !.method = method]

\* SetHeader storing the pair in a fresh map.
SetHeaderReplacing(bb, key, value) ==
    IF bb.err # Nil THEN bb ELSE [bb EXCEPT !.headers = [k \in {key} |-> value]]

\* Builder.SetHeader
SetHeaderB(bb, key, value) ==
    IF bb.err # Nil THEN bb
    ELSE [bb EXCEPT !.headers = [k \in DOMAIN bb.headers \cup {key} |->
                                    IF k = key THEN value ELSE bb.headers[k]]]

\* Builder.SetHeaders: maps.Copy(b.headers, headers)
SetHeadersB(bb, headers) ==
    IF bb.err # Nil THEN bb
    ELSE [bb EXCEPT !.headers = [k \in DOMAIN bb.headers \cup DOMAIN headers |->
                                    IF k \in DOMAIN headers THEN headers[k]
                                    ELSE bb.headers[k]]]

\* SetBody without the Content-Type header of a JSON body.
SetBodyKeepingHeaders(bb, body) ==
    IF bb.err # Nil THEN bb
    ELSE IF body.t \in {"string", "bytes"} THEN [bb EXCEPT !.body = NewReader(body.v)]
    ELSE [bb EXCEPT !.body = NewReader(Marshal(body.v))]

\* Builder.SetBody, body one of [t |-> "string", v], [t |-> "bytes", v] and
\* [t |-> "other", v] with v a value json.Marshal accepts.  (A value it does
\* not accept is the panic of the action SetBodyPanic.)
SetBodyB(bb, body) ==
    IF bb.err # Nil THEN bb
    ELSE IF body.t \in {"string", "bytes"} THEN [bb EXCEPT !.body = NewReader(body.v)]
    ELSE SetHeaderB([bb EXCEPT !.body = NewReader(Marshal(body.v))],
                    "Content-Type", "application/json")

\* A read that leaves the reader where it was.
ReadFromKeeping(r) == [data |-> r.rest, r |-> r]

\* buf.ReadFrom(b.body): the bytes read and the reader afterwards.
ReadFrom(r) == [data |-> r.rest, r |-> [r EXCEPT !.rest = <<>>]]

\* Builder.GetBody: [ret, b]
GetBodyB(bb) ==
    IF bb.body.nil THEN [ret |-> <<>>, b |-> bb]
    ELSE [ret |-> ReadFrom(bb.body).data, b |-> [bb EXCEPT !.body = ReadFrom(bb.body).r]]

\* Builder.SetContext
SetContextB(bb, ctx) ==
    IF bb.err # Nil THEN bb ELSE [bb EXCEPT !.ctx = ctx]

\* Builder.SetTimeout
SetTimeoutB(bb, duration) ==
    IF bb.err # Nil THEN bb ELSE [bb EXCEPT !.timeout = duration]

\* SetOutput that does not test b.err.
SetOutputUnguarded(bb, output) == [bb EXCEPT !.output = output]

\* Builder.SetOutput
SetOutputB(bb, output) ==
    IF bb.err # Nil THEN bb ELSE [bb EXCEPT !.output = output]

\* query.Set(key, value) for every entry of params, in any order.
SetAll(q, params) ==
    [x \in DOMAIN q \cup DOMAIN params |->
        IF x \in DOMAIN params THEN <<params[x]>> ELSE q[x]]

\* Builder.SetQueryParams
SetQueryParamsB(bb, params) ==
    IF bb.err # Nil THEN bb
    ELSE LET p == Parse(bb.url) IN
         IF ~p.ok THEN [bb EXCEPT !.err = ParseError(bb.url, p.err)]
         ELSE [bb EXCEPT !.url =
                  String([p.u EXCEPT !.RawQuery = Encode(SetAll(Query(p.u), params))])]

\* Builder.SetQueryParam
SetQueryParamB(bb, key, value) ==
    IF bb.err # Nil THEN bb
    ELSE LET p == Parse(bb.url) IN
         IF ~p.ok THEN [bb EXCEPT !.err = ParseError(bb.url, p.err)]
         ELSE [bb EXCEPT !.url =
                  String([p.u EXCEPT !.RawQuery =
                                        Encode(ValuesSet(Query(p.u), key, value))])]

\* Builder.IgnoreStatusCode
IgnoreStatusCodeB(bb) ==
    IF bb.err # Nil THEN bb ELSE [bb EXCEPT !.ignoreStatusCode = TRUE]

\* The accessors that only read.
GetMethod(bb) == bb.method
GetHeaders(bb) == bb.headers
GetContext(bb) == bb.ctx
GetTimeout(bb) == bb.timeout
GetOutput(bb) == bb.output
IsIgnoreStatusCode(bb) == bb.ignoreStatusCode
GetUrl(bb) == bb.url

\* Builder.BuildURL: [url, err]
BuildURL(bb) ==
    IF bb.err # Nil THEN [url |-> <<>>, err |-> bb.err]
    ELSE LET p == Parse(bb.url) IN
         IF ~p.ok THEN [url |-> <<>>, err |-> LibError("parse", p.err)]
         ELSE [url |-> String(p.u), err |-> Nil]

\* isValidMethod
isValidMethod(method) == ToUpper(method) \in Range(validMethods)

\* isExist: !os.IsNotExist(err) of os.Stat
isExist(f, path) == Stat(f, path) # "notexist"

\* isDirectory: [ok, dir]
isDirectory(f, path) ==
    [ok |-> Stat(f, path) \in {"dir", "file"}, dir |-> Stat(f, path) = "dir"]

\* isValidURL that does not test the scheme and the host.
isValidURLNoHost(u) == ParseRequestURI(u).ok

\* isValidURL
isValidURL(u) ==
    LET p == ParseRequestURI(u)
    IN  p.ok /\ p.u.Scheme # <<>> /\ p.u.Host # <<>>

\* extractFilename(resp, url); resp.cd is the Content-Disposition header,
\* empty when the response has none.
extractFilename(resp, url) ==
    LET parts == Split(resp.cd, <<"f","i","l","e","n","a","m","e","=">>)
    IN  IF resp.cd # <<>> /\ Len(parts) > 1 THEN Trim(parts[2], "\"")
        ELSE Base(url)

(***************************************************************************)
(* Exec                                                                    *)
(***************************************************************************)
\* What the most recent call returned and did: op the call ("New", "set" for
\* a chained setter, "GetBody", "Exec", "panic"); ret the string returned;
\* err the error returned; net whether client.Do was called; sent the request
\* body bytes the transport read; status and cd the response's status code
\* and Content-Disposition header (0 and empty without a response); dest the
\* path handed to os.Create; fileop how far the file operations got.
Out(op) == [op |-> op, ret |-> <<>>, err |-> Nil, net |-> FALSE, sent |-> <<>>,
            status |-> 0, cd |-> <<>>, dest |-> <<>>, fileop |-> "none"]

\* An outcome whose error Exec records on the Builder.
OutcomeRecording(bb, f, o) ==
    [b |-> IF bb.err = Nil THEN [bb EXCEPT !.err = o.err] ELSE bb, fs |-> f, out |-> o]

Outcome(bb, f, o) == [b |-> bb, fs |-> f, out |-> o]

\* The status check with the limit one too high.
StatusFailsAbove400(bb, status) == ~bb.ignoreStatusCode /\ status > 400

\* The status check of Exec.
StatusFails(bb, status) == ~bb.ignoreStatusCode /\ status > 399

\* Output resolution: [ok, path]; not ok when the output exists and os.Stat
\* fails on it in isDirectory.
OutputPath(bb, f, resp) ==
    LET isDir == IF isExist(f, bb.output) THEN isDirectory(f, bb.output)
                 ELSE [ok |-> TRUE, dir |-> FALSE]
    IN  [ok |-> isDir.ok,
         path |-> IF isDir.ok /\ isDir.dir
                  THEN Join(bb.output, extractFilename(resp, bb.url))
                  ELSE bb.output]

\* os.Create and io.Copy: the copy may fail after any strict prefix of the
\* response body; the file stays as written.
FileStage(bb, f, resp, o) ==
    LET op == OutputPath(bb, f, resp) IN
    IF ~op.ok
    THEN {Outcome(bb, f, [o EXCEPT !.err = LibError("stat", "not a directory"),
                                   !.fileop = "stat failed"])}
    ELSE IF ~CanCreate(f, op.path)
    THEN {Outcome(bb, f, [o EXCEPT !.err = LibError("create", "open"),
                                   !.dest = op.path, !.fileop = "create failed"])}
    ELSE {Outcome(bb, WriteFile(f, op.path, resp.body),
                  [o EXCEPT !.dest = op.path, !.fileop = "written"])}
         \cup
         {Outcome(bb, WriteFile(f, op.path, SubSeq(resp.body, 1, n)),
                  [o EXCEPT !.err = LibError("copy", "write"),
                            !.dest = op.path, !.fileop = "copy failed"])
            : n \in 0..(Len(resp.body) - 1)}

\* Exec from the response on.
AfterResponse(bb, f, resp, o) ==
    IF StatusFails(bb, resp.status)
    THEN {Outcome(bb, f, [o EXCEPT !.err = StatusError(resp.status)])}
    ELSE FileStage(bb, f, resp, o)

\* The builder after the transport has read n bytes of the request body.
BodyRead(bb, n) ==
    IF bb.body.nil THEN bb ELSE [bb EXCEPT !.body.rest = From(bb.body.rest, n + 1)]

\* client.Do(req): the transport reads some prefix of the request body and
\* then either fails or delivers one of the responses.
RoundTrip(bb, f, responses) ==
    LET rest == IF bb.body.nil THEN <<>> ELSE bb.body.rest
        o(n) == [Out("Exec") EXCEPT !.net = TRUE, !.sent = SubSeq(rest, 1, n)]
    IN  UNION {
          {Outcome(BodyRead(bb, n), f,
                   [o(n) EXCEPT !.err = LibError("transport", "round trip")])}
          \cup
          UNION {AfterResponse(BodyRead(bb, n), f, r,
                               [o(n) EXCEPT !.status = r.status, !.cd = r.cd])
                   : r \in responses}
          : n \in 0..Len(rest)}

\* Builder.Exec: every outcome it can have on builder bb and file system
\* f when the server may answer with any of responses.
ExecOutcomes(bb, f, responses) ==
    IF bb.err # Nil
    THEN {Outcome(bb, f, [Out("Exec") EXCEPT !.err = bb.err])}
    ELSE IF ~isValidURL(bb.url)
    THEN {Outcome(bb, f, [Out("Exec") EXCEPT !.err = InvalidURL(bb.url)])}
    ELSE IF ~isValidMethod(bb.method)
    THEN {Outcome(bb, f, [Out("Exec") EXCEPT !.err = InvalidMethod(bb.method)])}
    ELSE IF bb.ctx = "nil" \/ ~Parse(bb.url).ok
    THEN {Outcome(bb, f, [Out("Exec") EXCEPT !.err = LibError("request", "new request")])}
    ELSE RoundTrip(bb, f, responses)

(***************************************************************************)
(* The state machine: one Builder, the file system it writes to, and a     *)
(* client that calls the Builder's methods in any order.                   *)
(***************************************************************************)
VARIABLES
    b,      \* the Builder
    fs,     \* the file system
    out,    \* what the most recent call returned and did
    g,      \* history: what the calls so far were given
    nops    \* the number of calls made

vars == <<b, fs, out, g, nops>>

\* The number of calls the client makes on its Builder.
MaxOps == 3

HttpE == <<"h","t","t","p",":","/","/","e",".","c","o","m">>

\* The URLs given to New: a host alone; a path and a query with a repeated
\* key; the unparsable URL of TestExec_InvalidURL; a relative reference; a
\* query with a pair that does not unescape.
Urls == { HttpE,
          HttpE \o <<"/","f","?","k","=","1","&","k","=","2","&","z","=","3">>,
          <<":",":","/","/","x">>,
          <<"/","p">>,
          HttpE \o <<"/","f","?","z","=","%","z","z">> }

Methods == { <<"p","o","s","t">>, <<"D","E","L","E","T","E">> }

HeaderPairs == { <<"Content-Type", "text/plain">>, <<"Accept", "text/plain">> }

HeaderMaps == { [k \in {"Accept", "Content-Type"} |-> "application/json"] }

Bodies == { [t |-> "string", v |-> <<"a","b">>],
            [t |-> "bytes",  v |-> <<"a","b">>],
            [t |-> "other",  v |-> [k |-> "str", s |-> <<"a">>]] }

Contexts == { "ctx1", "nil" }

Timeouts == { 5 }

Outputs == { <<"d">>, <<"o","u","t">>, <<>> }

QueryPairs == { << <<"k">>, <<"v">> >>, << <<"k">>, <<"w">> >>,
                << <<"a">>, <<"x","&","y">> >> }

QueryMaps == { (<<"k">> :> <<"w">>) @@ (<<"b">> :> <<"v">>) }

NoDisposition == <<>>

Attachment == <<"a",";"," ","f","i","l","e","n","a","m","e","=","\"","r","\"">>

\* The response body the server sends with a status.
RespBody(status) == IF status > 399 THEN <<"n">> ELSE <<"y">>

Response(status, cd) == [status |-> status, cd |-> cd, body |-> RespBody(status)]

\* The responses the server may give: success without and with a
\* Content-Disposition header, and the two statuses around the limit.
Responses == { Response(200, NoDisposition), Response(200, Attachment),
               Response(399, NoDisposition), Response(400, NoDisposition) }

\* The directories that exist before the first call; "./" is one of them.
InitFS == (<<".">> :> DirEntry) @@ (<<"d">> :> DirEntry)

Chained == Out("set")

Live == out.op # "panic" /\ nops < MaxOps

\* The bytes SetBody is given to make the body of.
BodyBytes(body) == IF body.t \in {"string", "bytes"} THEN body.v ELSE Marshal(body.v)

Init ==
    \E u \in Urls :
        /\ b = New(u)
        /\ fs = InitFS
        /\ out = Out("New")
        /\ g = [url0 |-> u, qset |-> NoValues, atErr |-> New(u),
                set |-> FALSE, content |-> <<>>, got |-> FALSE,
                touched |-> FALSE, sentAll |-> FALSE, failed |-> FALSE]
        /\ nops = 0

\* A setter returns the Builder; gg is the history after it.
Chain(bb, gg) ==
    /\ Live
    /\ b' = bb
    /\ out' = Chained
    /\ g' = gg
    /\ nops' = nops + 1
    /\ fs' = fs

SetMethod(method) == Chain(SetMethodB(b, method), g)

SetHeader(key, value) == Chain(SetHeaderB(b, key, value), g)

SetHeaders(headers) == Chain(SetHeadersB(b, headers), g)

SetBody(body) ==
    Chain(SetBodyB(b, body),
          IF b.err # Nil THEN g
          ELSE [g EXCEPT !.set = TRUE, !.content = BodyBytes(body), !.got = FALSE,
                         !.touched = FALSE, !.sentAll = FALSE])

\* SetBody with a value json.Marshal rejects: panic("failed to encode body to
\* JSON"); nothing is called after it.
SetBodyPanic ==
    /\ Live
    /\ b.err = Nil
    /\ out' = Out("panic")
    /\ nops' = nops + 1
    /\ UNCHANGED <<b, fs, g>>

SetContext(ctx) == Chain(SetContextB(b, ctx), g)

SetTimeout(duration) == Chain(SetTimeoutB(b, duration), g)

SetOutput(output) == Chain(SetOutputB(b, output), g)

\* The history after a query setter: the keys it set, and the Builder as it
\* was left if the call recorded the error.
QueryHistory(bb, params) ==
    [g EXCEPT !.qset = IF b.err = Nil /\ bb.err = Nil
                       THEN [x \in DOMAIN g.qset \cup DOMAIN params |->
                                IF x \in DOMAIN params THEN params[x] ELSE g.qset[x]]
                       ELSE g.qset,
              !.atErr = IF b.err = Nil /\ bb.err # Nil THEN bb ELSE g.atErr]

SetQueryParam(key, value) ==
    Chain(SetQueryParamB(b, key, value),
          QueryHistory(SetQueryParamB(b, key, value), key :> value))

SetQueryParams(params) ==
    Chain(SetQueryParamsB(b, params), QueryHistory(SetQueryParamsB(b, params), params))

IgnoreStatusCode == Chain(IgnoreStatusCodeB(b), g)

GetBody ==
    /\ Live
    /\ b' = GetBodyB(b).b
    /\ out' = [Out("GetBody") EXCEPT !.ret = GetBodyB(b).ret]
    /\ g' = [g EXCEPT !.got = TRUE]
    /\ nops' = nops + 1
    /\ fs' = fs

Exec ==
    /\ Live
    /\ \E o \in ExecOutcomes(b, fs, Responses) :
          /\ b' = o.b
          /\ fs' = o.fs
          /\ out' = o.out
          /\ g' = [g EXCEPT
                     !.touched = g.touched \/ o.out.sent # <<>>,
                     !.sentAll = g.sentAll
                                 \/ (g.set /\ ~g.got /\ ~g.touched /\ o.out.net
                                     /\ o.out.sent = g.content),
                     !.failed = g.failed \/ o.out.err.kind \in
                                   {"invalid URL", "invalid method", "status"}]
    /\ nops' = nops + 1

Next ==
    \/ \E method \in Methods : SetMethod(method)
    \/ \E h \in HeaderPairs : SetHeader(h[1], h[2])
    \/ \E headers \in HeaderMaps : SetHeaders(headers)
    \/ \E body \in Bodies : SetBody(body)
    \/ SetBodyPanic
    \/ \E ctx \in Contexts : SetContext(ctx)
    \/ \E duration \in Timeouts : SetTimeout(duration)
    \/ \E output \in Outputs : SetOutput(output)
    \/ \E q \in QueryPairs : SetQueryParam(q[1], q[2])
    \/ \E params \in QueryMaps : SetQueryParams(params)
    \/ IgnoreStatusCode
    \/ GetBody
    \/ Exec

Spec == Init /\ [][Next]_vars

(***************************************************************************)
(* What the claims speak of                                                *)
(***************************************************************************)
\* A call of one of the configuration methods.
ConfigCall ==
    \/ \E method \in Methods : SetMethod(method)
    \/ \E h \in HeaderPairs : SetHeader(h[1], h[2])
    \/ \E headers \in HeaderMaps : SetHeaders(headers)
    \/ \E body \in Bodies : SetBody(body)
    \/ \E ctx \in Contexts : SetContext(ctx)
    \/ \E duration \in Timeouts : SetTimeout(duration)
    \/ \E output \in Outputs : SetOutput(output)
    \/ \E q \in QueryPairs : SetQueryParam(q[1], q[2])
    \/ \E params \in QueryMaps : SetQueryParams(params)
    \/ IgnoreStatusCode

\* A call of SetQueryParam or SetQueryParams.
QueryCall ==
    \/ \E q \in QueryPairs : SetQueryParam(q[1], q[2])
    \/ \E params \in QueryMaps : SetQueryParams(params)

\* The fields of a Builder other than the body reader.
NonBody(bb) == [bb EXCEPT !.body = NilReader]

\* "The URL parses as an absolute URI with a non-empty scheme and host."
AbsoluteURL(u) ==
    LET p == ParseRequestURI(u)
    IN  p.ok /\ p.u.Scheme # <<>> /\ p.u.Host # <<>>

\* "The method, upper-cased, is one of GET, POST, PUT, PATCH."
AllowedMethod(m) ==
    ToUpper(m) \in { <<"G","E","T">>, <<"P","O","S","T">>, <<"P","U","T">>,
                     <<"P","A","T","C","H">> }

ValidationKinds == {"invalid URL", "invalid method"}

\* C1: once SetQueryParam or SetQueryParams has recorded an error, every
\* configuration call leaves every field of the Builder as it is, the fields
\* other than the body and the error are those of the moment the error was
\* recorded, and Exec returns that first error, calls no network and leaves
\* the file system alone.
C1_StickyError ==
    [][ /\ (b.err # Nil /\ ConfigCall => b' = b)
        /\ (b'.err # Nil => NonBody(b') = NonBody(g'.atErr))
        /\ (b.err # Nil /\ out'.op = "Exec" =>
               /\ out'.err = g.atErr.err
               /\ out'.err.op = "parse"
               /\ ~out'.net
               /\ fs' = fs
               /\ b' = b) ]_vars

\* An error was recorded, two more calls were made, the last one Exec, which
\* returned the error.
C1_Witness ==
    /\ b.err # Nil
    /\ nops = 3
    /\ ~g.got
    /\ out.op = "Exec"
    /\ out.err = b.err

\* C2: Exec calls the network only if the URL is absolute with scheme and
\* host and the method, upper-cased, is one of the four; otherwise it returns
\* "invalid URL" (checked first) or "invalid method", calls no network and
\* leaves the file system alone; every casing of the four methods passes.
C2_Validation ==
    [][ out'.op = "Exec" =>
          /\ (out'.net => AbsoluteURL(b.url) /\ AllowedMethod(b.method))
          /\ (~AbsoluteURL(b.url) =>
                 out'.err.kind = "invalid URL" /\ ~out'.net /\ fs' = fs)
          /\ (AbsoluteURL(b.url) /\ ~AllowedMethod(b.method) =>
                 out'.err.kind = "invalid method" /\ ~out'.net /\ fs' = fs)
          /\ (AbsoluteURL(b.url) /\ AllowedMethod(b.method) =>
                 out'.err.kind \notin ValidationKinds) ]_vars

\* Exec called the network with the method "post".
C2_Witness ==
    /\ out.op = "Exec"
    /\ out.net
    /\ b.method = <<"p","o","s","t">>

LastPathSegment(u) ==
    LET path == Parse(u).u.Path
    IN  From(path, LastIndex(path, "/") + 1)

\* The filename= parameter of a Content-Disposition header, without quotes.
FilenameParameter(cd) ==
    LET i == IndexSub(cd, <<"f","i","l","e","n","a","m","e","=">>)
    IN  Trim(Cut(From(cd, i + 9), ";").before, "\"")

HasFilename(cd) == IndexSub(cd, <<"f","i","l","e","n","a","m","e","=">>) # 0

\* C4: when the output path exists and is a directory, the destination is
\* the directory joined with the filename= parameter of Content-Disposition
\* if there is one, else with the last path segment of the request URL;
\* otherwise the destination is the output path as it is.
C4_OutputResolution ==
    [][ out'.op = "Exec" /\ out'.fileop \in {"written", "copy failed", "create failed"} =>
          out'.dest =
            IF Stat(fs, b.output) = "dir"
            THEN Join(b.output, IF HasFilename(out'.cd) THEN FilenameParameter(out'.cd)
                                ELSE LastPathSegment(b.url))
            ELSE b.output ]_vars

\* The '&'-separated pairs of the query of a URL, each as [k, v], unescaped
\* where the text unescapes and as written where it does not.
Unescaped(x) == IF unescape(x, "query").ok THEN unescape(x, "query").s ELSE x

PairOf(seg) == [k |-> Unescaped(Cut(seg, "=").before), v |-> Unescaped(Cut(seg, "=").after)]

QueryPairsOf(u) ==
    LET segs == Split(Parse(u).u.RawQuery, <<"&">>)
    IN  [i \in {j \in DOMAIN segs : segs[j] # <<>>} |-> PairOf(segs[i])]

\* C5: with no error recorded and a parsable URL, the built URL's query
\* holds every key set by SetQueryParam / SetQueryParams exactly once, with
\* the value of the latest call that set it, and every pair of the URL given
\* to New whose key no call has set is still there with its value.
C5_QueryParams ==
    b.err = Nil /\ Parse(b.url).ok =>
        LET built == QueryPairsOf(BuildURL(b).url)
            given == QueryPairsOf(g.url0)
        IN  /\ BuildURL(b).err = Nil
            /\ \A k \in DOMAIN g.qset :
                  /\ Cardinality({i \in DOMAIN built : built[i].k = k}) = 1
                  /\ \A i \in DOMAIN built : built[i].k = k => built[i].v = g.qset[k]
            /\ \A i \in DOMAIN given :
                  given[i].k \notin DOMAIN g.qset =>
                      \E j \in DOMAIN built : built[j] = given[i]

\* What SetBody does to the Builder when no error is recorded: a string or
\* a byte slice becomes the body and nothing else changes; another value
\* becomes the body as JSON, Content-Type becomes application/json, the other
\* headers and fields stay.
SetBodyEffect ==
    \A body \in Bodies :
        SetBody(body) /\ b.err = Nil =>
            IF body.t \in {"string", "bytes"}
            THEN b' = [b EXCEPT !.body = NewReader(body.v)]
            ELSE /\ b'.body = NewReader(Marshal(body.v))
                 /\ Marshal(body.v) # body.v.s
                 /\ DOMAIN b'.headers = DOMAIN b.headers \cup {"Content-Type"}
                 /\ b'.headers["Content-Type"] = "application/json"
                 /\ \A k \in DOMAIN b.headers \ {"Content-Type"} :
                        b'.headers[k] = b.headers[k]
                 /\ [b' EXCEPT !.body = b.body, !.headers = b.headers] = b

\* C6 as stated: with no error recorded, SetBody with a string or a byte
\* slice makes the body exactly those bytes and leaves the headers alone;
\* with another value it makes the body the value's JSON and sets
\* Content-Type to application/json; and the first GetBody after a SetBody
\* returns the body that SetBody made.
C6_SetBody_FirstGetBody ==
    [][ /\ SetBodyEffect
        /\ (out'.op = "GetBody" /\ g.set /\ ~g.got => out'.ret = g.content) ]_vars

\* C6 amended: the same effect of SetBody; and the first GetBody after a
\* SetBody returns the body that SetBody made provided no Exec has read from
\* the body since that SetBody.
C6_SetBody ==
    [][ /\ SetBodyEffect
        /\ (out'.op = "GetBody" /\ g.set /\ ~g.got /\ ~g.touched =>
               out'.ret = g.content) ]_vars

\* A JSON body was set, an Exec that read nothing of the body came between,
\* and the first GetBody returned the JSON.
C6_Witness ==
    /\ out.op = "GetBody"
    /\ out.ret = <<"\"", "a", "\"">>
    /\ g.set /\ ~g.touched
    /\ nops = 3
    /\ b.headers = [k \in {"Content-Type"} |-> "application/json"]

\* C7: New(u) gives url u, method GET, no headers, no body, timeout 10,
\* output "./", ignoreStatusCode false and no error; and while no error is
\* recorded SetMethod, SetTimeout, SetContext, SetOutput and IgnoreStatusCode
\* change their own field to the value given and nothing else, and SetHeader
\* and SetHeaders upsert the given keys, keep every other key and change
\* nothing else.
C7_DefaultsAndFrames ==
    [][ /\ (out.op = "New" =>
               /\ GetUrl(b) = g.url0
               /\ GetMethod(b) = <<"G","E","T">>
               /\ GetHeaders(b) = NoHeaders
               /\ b.body = NilReader
               /\ GetBodyB(b).ret = <<>>
               /\ GetTimeout(b) = 10
               /\ GetOutput(b) = <<".", "/">>
               /\ ~IsIgnoreStatusCode(b)
               /\ b.err = Nil)
        /\ (b.err = Nil =>
               /\ \A method \in Methods :
                     SetMethod(method) =>
                         GetMethod(b') = method /\ b' = [b EXCEPT !.method = method]
               /\ \A duration \in Timeouts :
                     SetTimeout(duration) =>
                         GetTimeout(b') = duration /\ b' = [b EXCEPT !.timeout = duration]
               /\ \A ctx \in Contexts :
                     SetContext(ctx) =>
                         GetContext(b') = ctx /\ b' = [b EXCEPT !.ctx = ctx]
               /\ \A output \in Outputs :
                     SetOutput(output) =>
                         GetOutput(b') = output /\ b' = [b EXCEPT !.output = output]
               /\ (IgnoreStatusCode =>
                      IsIgnoreStatusCode(b') /\ b' = [b EXCEPT !.ignoreStatusCode = TRUE])
               /\ \A h \in HeaderPairs :
                     SetHeader(h[1], h[2]) =>
                         /\ DOMAIN GetHeaders(b') = DOMAIN b.headers \cup {h[1]}
                         /\ GetHeaders(b')[h[1]] = h[2]
                         /\ \A k \in DOMAIN b.headers \ {h[1]} : b'.headers[k] = b.headers[k]
                         /\ [b' EXCEPT !.headers = b.headers] = b
               /\ \A headers \in HeaderMaps :
                     SetHeaders(headers) =>
                         /\ DOMAIN GetHeaders(b') = DOMAIN b.headers \cup DOMAIN headers
                         /\ \A k \in DOMAIN headers : GetHeaders(b')[k] = headers[k]
                         /\ \A k \in DOMAIN b.headers \ DOMAIN headers :
                                b'.headers[k] = b.headers[k]
                         /\ [b' EXCEPT !.headers = b.headers] = b) ]_vars

\* The timeout was overridden and two headers were set one after the other.
C7_Witness ==
    /\ b.err = Nil
    /\ GetTimeout(b) = 5
    /\ GetHeaders(b) = [k \in {"Accept", "Content-Type"} |-> "text/plain"]
    /\ out.op = "set"

\* What the accessors return on a Builder.
Observables(bb) ==
    [url |-> GetUrl(bb), method |-> GetMethod(bb), headers |-> GetHeaders(bb),
     body |-> GetBodyB(bb).ret, timeout |-> GetTimeout(bb), ctx |-> GetContext(bb),
     output |-> GetOutput(bb), ignoreStatusCode |-> IsIgnoreStatusCode(bb)]

\* C8: once err is set, whatever is called afterwards, every accessor
\* returns what it would have returned when the error was recorded.
C8_Frozen == b.err # Nil => Observables(b) = Observables(g.atErr)

C10_ExecNotSticky ==
    [][ /\ (out'.op \in {"Exec", "GetBody"} => NonBody(b') = NonBody(b))
        /\ (b.err = Nil /\ b'.err # Nil => QueryCall)
        /\ (g.failed /\ b.err = Nil =>
               /\ \A method \in Methods : SetMethod(method) => b'.method = method
               /\ \A output \in Outputs : SetOutput(output) => b'.output = output
               /\ (IgnoreStatusCode => b'.ignoreStatusCode)
               /\ (out'.op = "Exec" =>
                      /\ (out'.err.kind = "invalid URL" <=> ~AbsoluteURL(b.url))
                      /\ (out'.err.kind = "invalid method" <=>
                             AbsoluteURL(b.url) /\ ~AllowedMethod(b.method))
                      /\ (out'.err.kind = "status" =>
                             ~b.ignoreStatusCode /\ out'.status >= 400))) ]_vars

\* An Exec failed, a configuration call was made, and the next Exec
\* succeeded.
C10_Witness ==
    /\ g.failed
    /\ b.err = Nil
    /\ out.op = "Exec"
    /\ out.err = Nil
    /\ out.fileop = "written"

====
